---------------------------- MODULE Spec2Model ----------------------------
(***************************************************************************)
(* The account-linking workflow of helix-bot (cogs/ss14_auth_cog.py,       *)
(* NicknameModal.callback) over the discord_user link table of             *)
(* modules/database_manager.py.                                            *)
(*                                                                         *)
(* One bot process runs one asyncio event loop.  Every modal submission    *)
(* is a task of that loop; a task gives up control only at an `await`.     *)
(* The database calls (psycopg2) and get_creation_date (requests) are      *)
(* plain synchronous calls, so the code between two awaits is one atomic   *)
(* step of the model.  An action below is "the awaited call returned with  *)
(* some outcome, and the callback ran on to its next await (or its end)".  *)
(***************************************************************************)
EXTENDS Integers, Sequences, FiniteSets, TLC

VARIABLES
    discord_user,   \* the link table: a sequence of rows, in insertion order
    task,           \* task[t]: the callback invocation running in slot t
    nSubmitted,     \* modal submissions dispatched so far
    channel,        \* the messages of the prompt channel
    auth_message_id,\* cfg.AUTH_MESSAGE_ID, the persisted prompt reference
    ready,          \* the bot's readiness signal has been given
    recon,          \* the discord_auth_update loop and its current or last run
    nRuns,          \* runs of discord_auth_update started so far
    db,             \* the database manager, its connections, the unban table
    call,           \* the last call of the manager, config or role check
    nCalls          \* such calls made so far

linkVars == <<discord_user, task, nSubmitted>>
reconVars == <<channel, auth_message_id, ready, recon, nRuns>>
unitVars == <<db, call, nCalls>>
vars == <<discord_user, task, nSubmitted, channel, auth_message_id, ready, recon, nRuns,
          db, call, nCalls>>

(***************************************************************************)
(* Bounds                                                                  *)
(***************************************************************************)
\* modal submissions dispatched in one run of the model
MaxSubmits == 2

\* invocations that can be in flight at the same time
Tasks == {"t1", "t2"}

\* runs of the reconciliation task started in one run of the model
MaxRuns == 3

(***************************************************************************)
(* Input domains                                                           *)
(***************************************************************************)
SP == " "

\* texts typed into the modal's user_id_input field
Texts ==
    { <<>>, <<SP>>, <<"a", SP>>, <<"b">>, <<"x">> }

\* inter.author.id of the submitters
AuthorIds == {7, 12}

None == "None"

\* the player table: user_id -> last_seen_user_name
PlayerTable == (<<"a">> :> <<"A", "n", "n">>) @@ (<<"b">> :> <<"B", "o", "b">>)

\* what an awaited platform call can do: return, raise disnake.Forbidden,
\* or raise another disnake.HTTPException
PlatformOutcomes == {"ok", "Forbidden", "HTTPException"}

(***************************************************************************)
(* Pure functions                                                          *)
(***************************************************************************)
Range(f) == {f[i] : i \in DOMAIN f}

IsSpace(c) == c = SP

RECURSIVE LStrip(_)
LStrip(s) ==
    IF s # <<>> /\ IsSpace(Head(s)) THEN LStrip(Tail(s)) ELSE s

RECURSIVE RStrip(_)
RStrip(s) ==
    IF s # <<>> /\ IsSpace(s[Len(s)]) THEN RStrip(SubSeq(s, 1, Len(s) - 1)) ELSE s

\* str.strip()
Strip(s) == RStrip(LStrip(s))

RECURSIVE Digits(_)
Digits(n) ==
    IF n < 10 THEN <<n>> ELSE Append(Digits(n \div 10), n % 10)

\* str(inter.author.id): the decimal digits of a non-negative integer
Str(n) == Digits(n)

\* Python truthiness of the value get_username_by_user_id returns
Falsy(v) == v = None \/ v = <<>>

\* SELECT last_seen_user_name FROM player WHERE user_id = %s; a psycopg2.Error
\* is caught and the function returns None
get_username_by_user_id(user_id, dbFails) ==
    IF dbFails THEN None
    ELSE IF user_id \in DOMAIN PlayerTable THEN PlayerTable[user_id]
    ELSE None

is_user_linked_uid_only(rows, user_id, discord_id) ==
    \E i \in 1..Len(rows) : rows[i].user_id = user_id

is_user_linked_did_only(rows, user_id, discord_id) ==
    \E i \in 1..Len(rows) : rows[i].discord_id = discord_id

\* SELECT 1 ... WHERE discord_id = %s ; SELECT 1 ... WHERE user_id = %s
is_user_linked(rows, user_id, discord_id) ==
    LET result_discord_id == \E i \in 1..Len(rows) : rows[i].discord_id = discord_id
        result_user_id    == \E i \in 1..Len(rows) : rows[i].user_id = user_id
    IN  result_discord_id \/ result_user_id

RECURSIVE MaxKey(_)
\* COALESCE(MAX(discord_user_id), 0)
MaxKey(rows) ==
    IF rows = <<>> THEN 0
    ELSE LET m == MaxKey(Tail(rows))
             k == Head(rows).discord_user_id
         IN  IF k > m THEN k ELSE m

next_id_no_increment(rows) == MaxKey(rows)

\* next_id = max_id + 1
next_id(rows) == MaxKey(rows) + 1

link_user_to_discord_no_insert(rows, user_id, discord_id) == rows

\* INSERT INTO discord_user (discord_user_id, user_id, discord_id); commit
link_user_to_discord(rows, user_id, discord_id) ==
    Append(rows, [discord_user_id |-> next_id(rows),
                  user_id         |-> user_id,
                  discord_id      |-> discord_id])

\* What the HTTP lookup of get_creation_date can meet: requests.get fails, the
\* status is an error, the body is no JSON (requests >= 2.27 raises its own
\* JSONDecodeError, older ones json's), the JSON is no object, createdTime is
\* missing, null or no ISO date, or all is well.
ApiResponses ==
    { "connection_error", "http_error", "not_json", "not_json_legacy", "not_dict",
      "missing_field", "null_field", "malformed_date", "ok" }

\* the classes of the exception raised in the try block (lines 12-18), {} if none
creation_date_exception(resp) ==
    CASE resp = "connection_error" -> {"RequestException", "Exception"}
      [] resp = "http_error"       -> {"HTTPError", "RequestException", "Exception"}
      [] resp = "not_json"         -> {"RequestException", "ValueError", "Exception"}
      [] resp = "not_json_legacy"  -> {"ValueError", "Exception"}
      [] resp = "not_dict"         -> {"AttributeError", "Exception"}
      [] resp = "missing_field"    -> {"ValueError", "Exception"}
      [] resp = "null_field"       -> {"TypeError", "Exception"}
      [] resp = "malformed_date"   -> {"ValueError", "Exception"}
      [] OTHER                     -> {}

\* the value an except clause returns
creation_date_error(class) ==
    CASE class = "HTTPError"        -> "api_error_text"
      [] class = "RequestException" -> "connection_error_text"
      [] class = "ValueError"       -> "parse_error_text"
      [] OTHER                      -> "generic_error_text"

\* no except clause matched: the exception leaves get_creation_date
Uncaught == "uncaught"

\* the first except clause, in source order, that matches the exception
handle_creation_date(exc, clauses) ==
    LET matching == {i \in 1..Len(clauses) : clauses[i] \in exc}
    IN  IF matching = {} THEN Uncaught
        ELSE creation_date_error(clauses[CHOOSE i \in matching : \A j \in matching : i <= j])

get_creation_date_no_catch_all(resp) ==
    IF creation_date_exception(resp) = {} THEN "timestamp"
    ELSE handle_creation_date(creation_date_exception(resp),
                              <<"HTTPError", "RequestException", "ValueError">>)

\* get_creation_date(uuid): '<t:...:f>' or the text of the except clause taken
get_creation_date(resp) ==
    IF creation_date_exception(resp) = {} THEN "timestamp"
    ELSE handle_creation_date(creation_date_exception(resp),
                              <<"HTTPError", "RequestException", "ValueError", "Exception">>)

(***************************************************************************)
(* Invocations                                                             *)
(***************************************************************************)
Idle ==
    [ pc          |-> "idle",
      text        |-> <<>>,
      author      |-> 0,
      preUid      |-> FALSE,  \* at submission the player id was in a link row
      preDid      |-> FALSE,  \* at submission the requester was in a link row
      outcome     |-> "none", \* the branch the callback took
      raised      |-> "none", \* the exception that left the callback
      dbCalls     |-> <<>>,   \* Account Directory calls made, in order
      dbError     |-> FALSE,  \* one of them hit a psycopg2.Error
      checkPassed |-> FALSE,  \* is_user_linked returned False
      inserted    |-> FALSE,  \* link_user_to_discord committed a row
      dm          |-> "none", \* user.send:        none / sent / refused / failed
      reply       |-> "none", \* inter.send:       none / sent / failed
      audit       |-> "none", \* tech_channel.send: none / sent / failed
      creation_date |-> "none", \* what get_creation_date returned (line 112)
      auditText   |-> "none", \* the creation date written in the audit post
      auditPosts  |-> 0       \* tech_channel.send calls made
    ]

user_id_of(t) == Strip(task[t].text)
discord_id_of(t) == Str(task[t].author)

\* the rows of the link table that carry a player id / a Discord id
RowsOfUser(user_id) ==
    {i \in 1..Len(discord_user) : discord_user[i].user_id = user_id}
RowsOfDiscord(discord_id) ==
    {i \in 1..Len(discord_user) : discord_user[i].discord_id = discord_id}

Set(t, r) == task' = [task EXCEPT ![t] = r]

\* an exception leaves the callback: the task ends, nothing more is sent
Raise(r, kind) == [r EXCEPT !.pc = "done", !.raised = kind]

\* The table the bot finds when it starts: empty, or holding a row written
\* earlier (its key is not 1: the keys of deleted rows are not reused).
InitTables ==
    { <<>>,
      <<[discord_user_id |-> 4, user_id |-> <<"b">>, discord_id |-> Str(12)]>> }

\* the reconciliation loop before SS14AuthCog is constructed
ReconIdle ==
    [ state       |-> "not_started", \* not_started / waiting_ready / scheduled /
                                     \* running / failed / cancelled
      pc          |-> "none",        \* the await the run is suspended at
      result      |-> "none",        \* how the last run ended: completed / raised /
                                     \* retry / cancelled
      channel_ok  |-> FALSE,         \* get_channel returned a channel
      start       |-> {},            \* the channel when the run started
      old_message |-> 0,
      new_message |-> 0,
      notFound    |-> FALSE,         \* fetch_message raised NotFound
      fetches     |-> 0,             \* channel.fetch_message calls
      scans       |-> 0,             \* channel.pins calls
      edited      |-> <<>>,          \* ids of the messages edited, in order
      sent        |-> <<>>,          \* ids of the messages sent
      pinned      |-> <<>>           \* ids of the messages pinned
    ]

\* no call has been made yet
NoCall ==
    [ op        |-> "none",
      db_name   |-> "none",
      pre       |-> <<>>,     \* db_params before the call
      arg       |-> <<>>,     \* the call's other arguments
      env       |-> <<>>,     \* the environment of a get_env_variable call
      result    |-> "none",   \* the value returned
      raised    |-> "none",   \* the exception class that left the call
      message   |-> <<>>,     \* its message
      cause     |-> "none",   \* its __cause__
      dbError   |-> "none",   \* where a database error was raised
      connects  |-> <<>>,     \* parameters of the psycopg2.connect calls
      rollbacks |-> 0,        \* conn.rollback() calls and rollbacks of `with`
      commits   |-> 0,
      inserted  |-> FALSE,    \* an unban row was committed
      sends     |-> 0,        \* ctx.send calls
      conn      |-> 0         \* id of the connection the call opened
    ]

\* the state of a specification that makes no call
ManagerIdle ==
    /\ db = [ctor_arg |-> [given |-> FALSE, configs |-> <<>>], db_params |-> <<>>,
             conns |-> {},
             server_unban |-> <<>>]
    /\ call = NoCall
    /\ nCalls = 0

Init ==
    /\ discord_user \in InitTables
    /\ task = [t \in Tasks |-> Idle]
    /\ nSubmitted = 0
    /\ channel = {}
    /\ auth_message_id = 0
    /\ ready = FALSE
    /\ recon = ReconIdle
    /\ nRuns = 0
    /\ ManagerIdle

\* The modal is submitted: disnake starts callback(inter) as a task, which runs
\* to `await inter.response.defer(...)`.
Submit(t) ==
    /\ task[t].pc = "idle"
    /\ nSubmitted < MaxSubmits
    /\ \E text \in Texts, author \in AuthorIds :
         Set(t, [Idle EXCEPT
                   !.pc = "await_defer",
                   !.text = text,
                   !.author = author,
                   !.preUid = RowsOfUser(Strip(text)) # {},
                   !.preDid = RowsOfDiscord(Str(author)) # {}])
    /\ nSubmitted' = nSubmitted + 1
    /\ UNCHANGED discord_user

\* defer returned; lines 36-117 run to the first await of the branch taken.
\* Each call's outcome is drawn where the code makes the call.
callback_validate(t) ==
    /\ task[t].pc = "await_defer"
    /\ LET r == task[t]
           user_id_input == Strip(r.text)
           discord_id == Str(r.author)
       IN
       \E deferOut \in PlatformOutcomes :
         IF deferOut # "ok" THEN
             Set(t, Raise(r, "Platform")) /\ UNCHANGED discord_user
         ELSE \E tech_channel \in {"channel", None} :
         IF tech_channel = None THEN
             Set(t, [r EXCEPT !.pc = "done", !.outcome = "ChannelUnresolved"])
             /\ UNCHANGED discord_user
         ELSE IF user_id_input = <<>> THEN
             Set(t, [r EXCEPT !.pc = "await_empty_reply", !.outcome = "EmptyInput"])
             /\ UNCHANGED discord_user
         ELSE \E lookupFails \in BOOLEAN :
         LET player_data == get_username_by_user_id(user_id_input, lookupFails)
             r1 == [r EXCEPT !.dbCalls = <<"get_username_by_user_id">>,
                             !.dbError = lookupFails]
             r2 == [r1 EXCEPT !.dbCalls = Append(r1.dbCalls, "is_user_linked")]
         IN
         IF Falsy(player_data) THEN
             Set(t, [r1 EXCEPT !.pc = "await_fail_fetch", !.outcome = "UnknownPlayer"])
             /\ UNCHANGED discord_user
         ELSE \E checkFails \in BOOLEAN :
         IF checkFails THEN
             Set(t, Raise([r2 EXCEPT !.dbError = TRUE], "Storage"))
             /\ UNCHANGED discord_user
         ELSE IF is_user_linked(discord_user, user_id_input, discord_id) THEN
             Set(t, [r2 EXCEPT !.pc = "await_fail_fetch", !.outcome = "AlreadyLinked"])
             /\ UNCHANGED discord_user
         ELSE \E resp \in ApiResponses, insertFails \in BOOLEAN :
         LET creation_date == get_creation_date(resp)
             r2c == [r2 EXCEPT !.checkPassed = TRUE]
             r3 == [r2c EXCEPT !.dbCalls = Append(r2.dbCalls, "link_user_to_discord"),
                               !.creation_date = creation_date]
         IN
         IF creation_date = Uncaught THEN
             Set(t, Raise(r2c, "Enrichment")) /\ UNCHANGED discord_user
         ELSE IF insertFails THEN
             Set(t, Raise([r3 EXCEPT !.dbError = TRUE], "Storage"))
             /\ UNCHANGED discord_user
         ELSE
             /\ discord_user' = link_user_to_discord(discord_user, user_id_input, discord_id)
             /\ Set(t, [r3 EXCEPT !.pc = "await_ok_fetch", !.outcome = "Linked",
                                  !.inserted = TRUE])
    /\ UNCHANGED nSubmitted

\* line 46: the EmptyInput reply returned
callback_empty_reply(t) ==
    /\ task[t].pc = "await_empty_reply"
    /\ \E out \in PlatformOutcomes :
         IF out = "ok"
         THEN Set(t, [task[t] EXCEPT !.pc = "done", !.reply = "sent"])
         ELSE Set(t, Raise([task[t] EXCEPT !.reply = "failed"], "Platform"))
    /\ UNCHANGED <<discord_user, nSubmitted>>

\* lines 59 / 78: fetch_user returned, inside the try
callback_fail_fetch(t) ==
    /\ task[t].pc = "await_fail_fetch"
    /\ \E out \in PlatformOutcomes :
         CASE out = "ok" -> Set(t, [task[t] EXCEPT !.pc = "await_fail_dm"])
           [] out = "Forbidden" -> Set(t, [task[t] EXCEPT !.pc = "await_fail_audit"])
           [] OTHER -> Set(t, Raise(task[t], "Platform"))
    /\ UNCHANGED <<discord_user, nSubmitted>>

callback_fail_dm_no_except(t) ==
    /\ task[t].pc = "await_fail_dm"
    /\ \E out \in PlatformOutcomes :
         CASE out = "ok" ->
                Set(t, [task[t] EXCEPT !.pc = "await_fail_reply", !.dm = "sent"])
           [] out = "Forbidden" ->
                Set(t, Raise([task[t] EXCEPT !.dm = "refused"], "Platform"))
           [] OTHER -> Set(t, Raise([task[t] EXCEPT !.dm = "failed"], "Platform"))
    /\ UNCHANGED <<discord_user, nSubmitted>>

\* lines 60 / 79: user.send returned, inside the try
callback_fail_dm(t) ==
    /\ task[t].pc = "await_fail_dm"
    /\ \E out \in PlatformOutcomes :
         CASE out = "ok" ->
                Set(t, [task[t] EXCEPT !.pc = "await_fail_reply", !.dm = "sent"])
           [] out = "Forbidden" ->
                Set(t, [task[t] EXCEPT !.pc = "await_fail_audit", !.dm = "refused"])
           [] OTHER -> Set(t, Raise([task[t] EXCEPT !.dm = "failed"], "Platform"))
    /\ UNCHANGED <<discord_user, nSubmitted>>

\* lines 63 / 82: inter.send returned, inside the try
callback_fail_reply(t) ==
    /\ task[t].pc = "await_fail_reply"
    /\ \E out \in PlatformOutcomes :
         CASE out = "ok" ->
                Set(t, [task[t] EXCEPT !.pc = "await_fail_audit", !.reply = "sent"])
           [] out = "Forbidden" ->
                Set(t, [task[t] EXCEPT !.pc = "await_fail_audit", !.reply = "failed"])
           [] OTHER -> Set(t, Raise([task[t] EXCEPT !.reply = "failed"], "Platform"))
    /\ UNCHANGED <<discord_user, nSubmitted>>

\* lines 70 / 89: tech_channel.send returned, after the try; then return
callback_fail_audit(t) ==
    /\ task[t].pc = "await_fail_audit"
    /\ \E out \in PlatformOutcomes :
         IF out = "ok"
         THEN Set(t, [task[t] EXCEPT !.pc = "done", !.audit = "sent",
                                     !.auditPosts = @ + 1])
         ELSE Set(t, Raise([task[t] EXCEPT !.audit = "failed",
                                           !.auditPosts = @ + 1], "Platform"))
    /\ UNCHANGED <<discord_user, nSubmitted>>

\* line 117: fetch_user returned; line 118 looks the name up again
callback_ok_fetch(t) ==
    /\ task[t].pc = "await_ok_fetch"
    /\ \E out \in PlatformOutcomes :
         IF out = "ok"
         THEN Set(t, [task[t] EXCEPT
                        !.pc = "await_ok_audit",
                        !.dbCalls = Append(@, "get_username_by_user_id")])
         ELSE Set(t, Raise(task[t], "Platform"))
    /\ UNCHANGED <<discord_user, nSubmitted>>

\* line 120: tech_channel.send returned
callback_ok_audit(t) ==
    /\ task[t].pc = "await_ok_audit"
    /\ \E out \in PlatformOutcomes :
         IF out = "ok"
         THEN Set(t, [task[t] EXCEPT !.pc = "await_ok_reply", !.audit = "sent",
                                     !.auditText = task[t].creation_date,
                                     !.auditPosts = @ + 1])
         ELSE Set(t, Raise([task[t] EXCEPT !.audit = "failed",
                                           !.auditPosts = @ + 1], "Platform"))
    /\ UNCHANGED <<discord_user, nSubmitted>>

\* line 126: inter.send returned; the callback ends
callback_ok_reply(t) ==
    /\ task[t].pc = "await_ok_reply"
    /\ \E out \in PlatformOutcomes :
         IF out = "ok"
         THEN Set(t, [task[t] EXCEPT !.pc = "done", !.reply = "sent"])
         ELSE Set(t, Raise([task[t] EXCEPT !.reply = "failed"], "Platform"))
    /\ UNCHANGED <<discord_user, nSubmitted>>

\* the finished task is dropped by the event loop
Finish(t) ==
    /\ task[t].pc = "done"
    /\ Set(t, Idle)
    /\ UNCHANGED <<discord_user, nSubmitted>>

Next ==
    /\ \E t \in Tasks :
        \/ Submit(t)
        \/ callback_validate(t)
        \/ callback_empty_reply(t)
        \/ callback_fail_fetch(t)
        \/ callback_fail_dm(t)
        \/ callback_fail_reply(t)
        \/ callback_fail_audit(t)
        \/ callback_ok_fetch(t)
        \/ callback_ok_audit(t)
        \/ callback_ok_reply(t)
        \/ Finish(t)
    /\ UNCHANGED reconVars
    /\ UNCHANGED unitVars

Spec == Init /\ [][Next]_vars

(***************************************************************************)
(* The reconciliation task: SS14AuthCog.discord_auth_update, a             *)
(* tasks.loop(hours=12) started by the cog's constructor.  A run of the    *)
(* body gives up control at its awaits (fetch_message, edit, pins, send,   *)
(* pin); an action below is "the awaited call returned, and the body ran   *)
(* on to its next await or its end".  Only the bot changes the channel.    *)
(***************************************************************************)
\* the embed the task writes, and what a message can carry
Template == "template"
Contents == {Template, "old_prompt", "other"}

\* a message of the prompt channel
Message(id, author, isPinned, content) ==
    [id |-> id, author |-> author, pinned |-> isPinned, content |-> content]

\* the prompt (id 1) is absent, pinned or not; a pinned message of another
\* author (id 2) and a pinned bot message that is no prompt (id 3) may exist
InitChannels ==
    { p \cup f \cup o :
        p \in { {}, {Message(1, "bot", TRUE, "old_prompt")},
                    {Message(1, "bot", FALSE, "old_prompt")},
                    {Message(1, "bot", TRUE, Template)} },
        f \in { {}, {Message(2, "other", TRUE, "other")} },
        o \in { {}, {Message(3, "bot", TRUE, "other")} } }

\* cfg.AUTH_MESSAGE_ID: unset, the prompt's id, or the id of no message
AuthMessageIds == {0, 1, 99}

\* what an awaited platform call of the loop body can do: return, raise an
\* HTTPException (the loop stops), or raise one of the connection errors
\* tasks.loop retries the body on
ReconOutcomes == {"ok", "HTTPException", "ClientError"}

Ids(ch) == {m.id : m \in ch}

\* a prompt message: written by the bot and carrying the prompt embed
IsPrompt(m) == m.author = "bot" /\ m.content \in {Template, "old_prompt"}
Prompts(ch) == {m \in ch : IsPrompt(m)}

\* message.edit(embed=embed, view=RegisterButton())
edit(ch, id) ==
    {IF m.id = id THEN [m EXCEPT !.content = Template] ELSE m : m \in ch}

pin_nothing(ch, id) == ch

\* message.pin()
pin(ch, id) ==
    {IF m.id = id THEN [m EXCEPT !.pinned = TRUE] ELSE m : m \in ch}

\* the id the platform gives a new message: one no message has, and not
\* the configured reference
NewId(ch) == 10 + Cardinality(ch)

\* channel.send(embed=embed, view=RegisterButton()): a new, unpinned message
send(ch) == ch \cup {Message(NewId(ch), "bot", FALSE, Template)}

get_pinned_message_none(ch) == {}

get_pinned_message_any_author(ch) ==
    {m.id : m \in {x \in ch : x.pinned}}

\* get_pinned_message: the first pinned message whose author is the bot.
\* The order of channel.pins() is the platform's, so every pinned bot
\* message is a possible result; the empty set stands for None.
get_pinned_message(ch) ==
    {m.id : m \in {x \in ch : x.pinned /\ x.author = "bot"}}

ref_edit_falls_through == FALSE

\* the `return` after the edit of the referenced message (line 198)
ref_edit_returns == TRUE

not_found_reraises == "raise"

\* `except disnake.NotFound: print(...)`: the run goes on to the pinned scan
not_found_handler == "await_pins"

wait_until_ready_skipped(isReady) == TRUE

\* bot.wait_until_ready() returns once the bot is ready
wait_until_ready(isReady) == isReady

\* how a run ends
Complete(r) == [r EXCEPT !.state = "scheduled", !.pc = "none", !.result = "completed"]
Fail(r)     == [r EXCEPT !.state = "failed",    !.pc = "none", !.result = "raised"]
Retry(r)    == [r EXCEPT !.state = "scheduled", !.pc = "none", !.result = "retry"]

\* an awaited call that raised: tasks.loop runs the body again after a
\* back-off for a connection error, and stops for anything else
Raised(r, out) == IF out = "ClientError" THEN Retry(r) ELSE Fail(r)

\* the linking workflow is not running
LinkIdle ==
    /\ discord_user = <<>>
    /\ task = [t \in Tasks |-> Idle]
    /\ nSubmitted = 0

InitRecon ==
    /\ LinkIdle
    /\ channel \in InitChannels
    /\ auth_message_id \in AuthMessageIds
    /\ ready = FALSE
    /\ recon = ReconIdle
    /\ nRuns = 0
    /\ ManagerIdle

\* SS14AuthCog.__init__: self.discord_auth_update.start()
cog_init ==
    /\ recon.state = "not_started"
    /\ recon' = [recon EXCEPT !.state = "waiting_ready"]
    /\ UNCHANGED <<channel, auth_message_id, ready, nRuns>>

\* the bot becomes ready
on_ready ==
    /\ ~ready
    /\ ready' = TRUE
    /\ UNCHANGED <<channel, auth_message_id, recon, nRuns>>

\* before_discord_auth_update returns; the first run is due
before_discord_auth_update ==
    /\ recon.state = "waiting_ready"
    /\ wait_until_ready(ready)
    /\ recon' = [recon EXCEPT !.state = "scheduled"]
    /\ UNCHANGED <<channel, auth_message_id, ready, nRuns>>

\* a run starts: get_channel, the embed, message_id = cfg.AUTH_MESSAGE_ID,
\* up to the first await.  With no channel the `if channel:` block is
\* skipped and get_pinned_message(None) raises AttributeError.
discord_auth_update ==
    /\ recon.state = "scheduled"
    /\ nRuns < MaxRuns
    /\ nRuns' = nRuns + 1
    /\ \E ch \in IF ready THEN {"channel", None} ELSE {None} :
        LET r == [ReconIdle EXCEPT !.state = "running", !.start = channel,
                                   !.channel_ok = (ch # None)]
        IN  recon' =
              IF ch = None THEN Fail(r)
              ELSE IF auth_message_id # 0
                   THEN [r EXCEPT !.pc = "await_fetch", !.fetches = 1]
                   ELSE [r EXCEPT !.pc = "await_pins", !.scans = 1]
    /\ UNCHANGED <<channel, auth_message_id, ready>>

\* channel.fetch_message(message_id) returned (line 196)
recon_fetched ==
    /\ recon.state = "running" /\ recon.pc = "await_fetch"
    /\ \E out \in ReconOutcomes :
        recon' =
          IF out # "ok" THEN Raised(recon, out)
          ELSE IF auth_message_id \in Ids(channel)
               THEN [recon EXCEPT !.pc = "await_edit_ref",
                                  !.old_message = auth_message_id]
               ELSE IF not_found_handler = "raise"
                    THEN Fail([recon EXCEPT !.notFound = TRUE])
                    ELSE [recon EXCEPT !.pc = not_found_handler, !.notFound = TRUE,
                                       !.scans = @ + 1]
    /\ UNCHANGED <<channel, auth_message_id, ready, nRuns>>

\* old_message.edit(...) of the referenced message returned (line 197)
recon_ref_edited ==
    /\ recon.state = "running" /\ recon.pc = "await_edit_ref"
    /\ \E out \in ReconOutcomes :
        IF out # "ok"
        THEN recon' = Raised(recon, out) /\ UNCHANGED channel
        ELSE /\ channel' = edit(channel, recon.old_message)
             /\ LET r == [recon EXCEPT !.edited = Append(@, recon.old_message)]
                IN  recon' = IF ref_edit_returns THEN Complete(r)
                             ELSE [r EXCEPT !.pc = "await_pins", !.scans = @ + 1]
    /\ UNCHANGED <<auth_message_id, ready, nRuns>>

\* channel.pins() returned inside get_pinned_message (lines 14-18, 204-211)
recon_pins_listed ==
    /\ recon.state = "running" /\ recon.pc = "await_pins"
    /\ \E out \in ReconOutcomes :
        IF out # "ok" THEN recon' = Raised(recon, out)
        ELSE IF get_pinned_message(channel) # {}
             THEN \E id \in get_pinned_message(channel) :
                    recon' = [recon EXCEPT !.pc = "await_edit_pinned",
                                           !.old_message = id]
             ELSE recon' = [recon EXCEPT !.pc = "await_send"]
    /\ UNCHANGED <<channel, auth_message_id, ready, nRuns>>

\* old_message.edit(...) of the pinned message returned (line 206)
recon_pinned_edited ==
    /\ recon.state = "running" /\ recon.pc = "await_edit_pinned"
    /\ \E out \in ReconOutcomes :
        IF out # "ok"
        THEN recon' = Raised(recon, out) /\ UNCHANGED channel
        ELSE /\ channel' = edit(channel, recon.old_message)
             /\ recon' = Complete([recon EXCEPT !.edited = Append(@, recon.old_message)])
    /\ UNCHANGED <<auth_message_id, ready, nRuns>>

\* channel.send(...) returned (line 211)
recon_sent ==
    /\ recon.state = "running" /\ recon.pc = "await_send"
    /\ \E out \in ReconOutcomes :
        IF out # "ok"
        THEN recon' = Raised(recon, out) /\ UNCHANGED channel
        ELSE /\ channel' = send(channel)
             /\ recon' = [recon EXCEPT !.pc = "await_pin",
                                       !.new_message = NewId(channel),
                                       !.sent = Append(@, NewId(channel))]
    /\ UNCHANGED <<auth_message_id, ready, nRuns>>

\* new_message.pin() returned (line 212)
recon_pinned ==
    /\ recon.state = "running" /\ recon.pc = "await_pin"
    /\ \E out \in ReconOutcomes :
        IF out # "ok"
        THEN recon' = Raised(recon, out) /\ UNCHANGED channel
        ELSE /\ channel' = pin(channel, recon.new_message)
             /\ recon' = Complete([recon EXCEPT !.pinned = Append(@, recon.new_message)])
    /\ UNCHANGED <<auth_message_id, ready, nRuns>>

\* cog_unload: discord_auth_update.cancel().  A run suspended at a call
\* that changes the channel is cancelled with the call done or not.
cog_unload ==
    /\ recon.state \in {"waiting_ready", "scheduled", "running"}
    /\ LET r == [recon EXCEPT !.state = "cancelled", !.pc = "none",
                              !.result = IF recon.state = "running"
                                         THEN "cancelled" ELSE @]
       IN  \E done \in BOOLEAN :
             IF ~done \/ recon.state # "running"
                \/ recon.pc \notin {"await_edit_ref", "await_edit_pinned",
                                    "await_send", "await_pin"}
             THEN recon' = r /\ UNCHANGED channel
             ELSE IF recon.pc = "await_send"
                  THEN recon' = r /\ channel' = send(channel)
                  ELSE IF recon.pc = "await_pin"
                       THEN recon' = r /\ channel' = pin(channel, recon.new_message)
                       ELSE recon' = r /\ channel' = edit(channel, recon.old_message)
    /\ UNCHANGED <<auth_message_id, ready, nRuns>>

\* the cog is loaded again after the loop stopped or was cancelled
cog_reload ==
    /\ recon.state \in {"failed", "cancelled"}
    /\ recon' = [recon EXCEPT !.state = "waiting_ready"]
    /\ UNCHANGED <<channel, auth_message_id, ready, nRuns>>

NextRecon ==
    /\ \/ cog_init
       \/ on_ready
       \/ before_discord_auth_update
       \/ discord_auth_update
       \/ recon_fetched
       \/ recon_ref_edited
       \/ recon_pins_listed
       \/ recon_pinned_edited
       \/ recon_sent
       \/ recon_pinned
       \/ cog_unload
       \/ cog_reload
    /\ UNCHANGED linkVars
    /\ UNCHANGED unitVars

SpecRecon == InitRecon /\ [][NextRecon]_vars

(***************************************************************************)
(* DatabaseManagerSS14 (modules/database_manager.py), get_env_variable     *)
(* (config.py) and the access predicate of has_any_role_by_keys            *)
(* (modules/check_roles.py), called one after another.  The database       *)
(* calls are synchronous: a call is one step.  `call` describes the last   *)
(* call, `db` the manager, its connections and the unban table.            *)
(***************************************************************************)
\* database names and the connection parameter dictionaries
DbNames == {"main", "dev"}
Configs == {"params_main", "params_dev"}

\* DatabaseManagerSS14.__init__: self.db_params = db_configs or {}
DatabaseManagerSS14(db_configs) ==
    IF ~db_configs.given THEN <<>>
    ELSE IF DOMAIN db_configs.configs = {} THEN <<>> ELSE db_configs.configs

add_database_replaces_all(db_params, name, db_config) ==
    [n \in {name} |-> db_config]

\* add_database: self.db_params[name] = db_config
add_database(db_params, name, db_config) ==
    [n \in DOMAIN db_params \cup {name} |->
        IF n = name THEN db_config ELSE db_params[n]]

_get_connection_default_main(db_params, db_name) ==
    IF db_name \in DOMAIN db_params
    THEN [raised |-> "none", message |-> <<>>, connects |-> <<db_params[db_name]>>]
    ELSE IF "main" \in DOMAIN db_params
         THEN [raised |-> "none", message |-> <<>>, connects |-> <<db_params["main"]>>]
         ELSE [raised |-> "ValueError",
               message |-> <<"Unknown database name: ", db_name>>,
               connects |-> <<>>]

\* _get_connection up to the connection attempt: the exception it raises
\* itself, and the parameters of the psycopg2.connect calls it makes
_get_connection(db_params, db_name) ==
    IF db_name \notin DOMAIN db_params
    THEN [raised |-> "ValueError",
          message |-> <<"Unknown database name: ", db_name>>,
          connects |-> <<>>]
    ELSE [raised |-> "none", message |-> <<>>, connects |-> <<db_params[db_name]>>]

\* environment variable names, values (a string is a sequence; <<>> is the
\* empty string) and the defaults of the callers
EnvNames == {"DB_HOST_SS14_MAIN", "DB_PORT_SS14_MAIN"}
EnvValues == {<<>>, <<SP>>, <<"h", "o", "s", "t">>}
Defaults == {<<"N", "U", "L", "L">>, <<"5", "4", "3", "2">>}
Environs == UNION {[S -> EnvValues] : S \in SUBSET {"DB_HOST_SS14_MAIN"}}

\* os.getenv(name)
getenv(environ, name) == IF name \in DOMAIN environ THEN environ[name] ELSE None

get_env_variable_unset_only(environ, name, default) ==
    IF getenv(environ, name) = None THEN default ELSE getenv(environ, name)

\* get_env_variable: the default for an unset or empty variable
get_env_variable(environ, name, default) ==
    IF Falsy(getenv(environ, name)) THEN default ELSE getenv(environ, name)

\* calls made in one run of the model
MaxCalls == 2

\* the manager as bot_init.py builds it (no argument), or built with a
\* dictionary; ctor_arg.given tells whether db_configs was passed
InitManagers ==
    { [ ctor_arg     |-> a,
        db_params    |-> DatabaseManagerSS14(a),
        conns        |-> {},
        server_unban |-> u ] :
      a \in { [given |-> FALSE, configs |-> <<>>],
               [given |-> TRUE, configs |-> <<>>],
               [given |-> TRUE, configs |-> [n \in {"main"} |-> "params_main"]],
               [given |-> TRUE, configs |-> [n \in DbNames |-> "params_dev"]] },
      u \in { <<>>, <<[ban_id |-> 2, unbanning_admin |-> <<"b">>]>> } }

\* a connection psycopg2.connect returned.  No method of the manager calls
\* close(): leaving `with conn:` commits or rolls back and keeps the
\* connection open, which is closed when its last reference goes: with the
\* frame of the method on a return, with the traceback when an exception
\* left the method.
Connection(id, params, txn, holder) ==
    [id |-> id, params |-> params, txn |-> txn, holder |-> holder]

\* the connection a call opens is numbered after the call
NewConn == nCalls + 1

\* db.conns holds the open connections: one whose method returned is
\* closed with the method's frame and is not kept
Opened(conns, k) == IF k.holder = "none" THEN conns ELSE conns \cup {k}

Called(op, r) ==
    /\ nCalls < MaxCalls
    /\ nCalls' = nCalls + 1
    /\ call' = [r EXCEPT !.op = op]

\* db_manager.add_database(name, db_config)
call_add_database ==
    \E name \in DbNames, db_config \in Configs :
      /\ Called("add_database",
                [NoCall EXCEPT !.db_name = name, !.arg = db_config,
                               !.pre = db.db_params, !.result = None])
      /\ db' = [db EXCEPT !.db_params = add_database(@, name, db_config)]

\* db_manager._get_connection(db_name), called on its own as the tests do
call_get_connection ==
    \E db_name \in DbNames, connectFails \in BOOLEAN :
      LET c == _get_connection(db.db_params, db_name)
          id == NewConn
          r == [NoCall EXCEPT !.db_name = db_name,
                              !.connects = c.connects]
      IN  IF c.raised # "none"
          THEN /\ Called("_get_connection",
                         [r EXCEPT !.raised = c.raised, !.message = c.message])
               /\ UNCHANGED db
          ELSE IF connectFails
          THEN /\ Called("_get_connection",
                         [r EXCEPT !.raised = "psycopg2.Error", !.dbError = "connect"])
               /\ UNCHANGED db
          ELSE /\ Called("_get_connection", [r EXCEPT !.result = "connection", !.conn = id])
               /\ db' = [db EXCEPT !.conns =
                            Opened(@, Connection(id, c.connects[1], "none", "caller"))]

\* get_env_variable(name, default), at import of config.py
call_get_env_variable ==
    \E environ \in Environs, name \in EnvNames, default \in Defaults :
      /\ Called("get_env_variable",
                [NoCall EXCEPT !.db_name = name, !.arg = default, !.env = environ,
                               !.result = get_env_variable(environ, name, default)])
      /\ UNCHANGED db

\* where a database error can be raised
FailPoints == {"none", "connect", "query"}

\* is_user_linked(user_id, discord_id, db_name): `with` and no except
call_is_user_linked ==
    \E db_name \in DbNames, failAt \in FailPoints :
      LET c == _get_connection(db.db_params, db_name)
          r == [NoCall EXCEPT !.db_name = db_name,
                              !.connects = c.connects]
      IN  IF c.raised # "none"
          THEN /\ Called("is_user_linked",
                         [r EXCEPT !.raised = c.raised, !.message = c.message])
               /\ UNCHANGED db
          ELSE IF failAt = "connect"
          THEN /\ Called("is_user_linked",
                         [r EXCEPT !.raised = "psycopg2.Error", !.dbError = failAt])
               /\ UNCHANGED db
          ELSE IF failAt = "query"
          THEN /\ Called("is_user_linked",
                         [r EXCEPT !.raised = "psycopg2.Error", !.dbError = failAt,
                                   !.rollbacks = 1, !.conn = NewConn])
               /\ db' = [db EXCEPT !.conns = Opened(@, Connection(NewConn, c.connects[1], "rolled_back", "traceback"))]
          ELSE /\ Called("is_user_linked",
                         [r EXCEPT !.result = is_user_linked(discord_user, <<"a">>, Str(7)),
                                   !.commits = 1, !.conn = NewConn])
               /\ db' = [db EXCEPT !.conns = Opened(@, Connection(NewConn, c.connects[1], "committed", "none"))]

\* get_username_by_user_id(user_id, db_name): `with` inside
\* try / except psycopg2.Error, which returns None
call_get_username_by_user_id ==
    \E db_name \in DbNames, failAt \in FailPoints, user_id \in {<<"a">>, <<"x">>} :
      LET c == _get_connection(db.db_params, db_name)
          r == [NoCall EXCEPT !.db_name = db_name,
                              !.arg = user_id, !.connects = c.connects]
      IN  IF c.raised # "none"
          THEN /\ Called("get_username_by_user_id",
                         [r EXCEPT !.raised = c.raised, !.message = c.message])
               /\ UNCHANGED db
          ELSE IF failAt = "connect"
          THEN /\ Called("get_username_by_user_id",
                         [r EXCEPT !.result = get_username_by_user_id(user_id, TRUE),
                                   !.dbError = failAt])
               /\ UNCHANGED db
          ELSE /\ Called("get_username_by_user_id",
                         [r EXCEPT !.result = get_username_by_user_id(user_id, failAt = "query"),
                                   !.dbError = failAt,
                                   !.rollbacks = IF failAt = "query" THEN 1 ELSE 0,
                                   !.commits = IF failAt = "query" THEN 0 ELSE 1,
                                   !.conn = NewConn])
               /\ db' = [db EXCEPT !.conns = Opened(@, Connection(NewConn, c.connects[1],
                                       IF failAt = "query" THEN "rolled_back" ELSE "committed",
                                       "none"))]

\* the bans of the server_ban table and the ids a caller can pass
server_ban == {1, 2}
BanIds == {1, 2, 3}

\* the statements of pardon_ban at which psycopg2 can raise
PardonFailPoints ==
    {"none", "connect", "select_ban", "select_unban", "select_admin", "insert", "commit"}

already_unbanned_never(rows, ban_id) == FALSE

\* SELECT 1 FROM server_unban WHERE ban_id = %s (lines 606-612)
already_unbanned(rows, ban_id) ==
    \E i \in 1..Len(rows) : rows[i].ban_id = ban_id

\* the first check of pardon_ban that turns the call away, "none" if none
pardon_refusal(rows, ban_id, admin_user_id) ==
    IF ban_id \notin server_ban THEN "BanMissing"
    ELSE IF already_unbanned(rows, ban_id) THEN "AlreadyUnbanned"
    ELSE IF Falsy(get_username_by_user_id(admin_user_id, FALSE)) THEN "AdminMissing"
    ELSE "none"

\* the statements pardon_ban executes, in order, for that refusal
pardon_statements(refusal) ==
    CASE refusal = "BanMissing"      -> <<"connect", "select_ban">>
      [] refusal = "AlreadyUnbanned" -> <<"connect", "select_ban", "select_unban">>
      [] refusal = "AdminMissing"    ->
            <<"connect", "select_ban", "select_unban", "select_admin">>
      [] OTHER -> <<"connect", "select_ban", "select_unban", "select_admin",
                    "insert", "commit">>

\* pardon_ban(ban_id, admin_user_id, db_name)
call_pardon_ban ==
    \E db_name \in DbNames, ban_id \in BanIds, admin_user_id \in {<<"a">>, <<"x">>},
       failAt \in PardonFailPoints :
      LET c == _get_connection(db.db_params, db_name)
          refusal == pardon_refusal(db.server_unban, ban_id, admin_user_id)
          fails == failAt \in Range(pardon_statements(refusal))
          r == [NoCall EXCEPT !.db_name = db_name,
                              !.arg = <<ban_id, admin_user_id>>,
                              !.connects = c.connects]
      IN  IF c.raised # "none"
          THEN \* ValueError is no psycopg2.Error: it leaves pardon_ban as it is
               /\ Called("pardon_ban",
                         [r EXCEPT !.raised = c.raised, !.message = c.message])
               /\ UNCHANGED db
          ELSE IF fails /\ failAt = "connect"
          THEN \* `conn` was never bound: conn.rollback() of line 652 raises
               /\ Called("pardon_ban",
                         [r EXCEPT !.raised = "UnboundLocalError", !.dbError = failAt])
               /\ UNCHANGED db
          ELSE IF fails
          THEN \* `with` rolls back, line 652 rolls back, line 653 raises
               /\ Called("pardon_ban",
                         [r EXCEPT !.raised = "RuntimeError", !.cause = "psycopg2.Error",
                                   !.dbError = failAt, !.rollbacks = 2,
                                   !.conn = NewConn])
               /\ db' = [db EXCEPT !.conns = Opened(@, Connection(NewConn, c.connects[1], "rolled_back", "traceback"))]
          ELSE IF refusal # "none"
          THEN /\ Called("pardon_ban",
                         [r EXCEPT !.result = <<FALSE, refusal>>, !.commits = 1,
                                   !.conn = NewConn])
               /\ db' = [db EXCEPT !.conns = Opened(@, Connection(NewConn, c.connects[1], "committed", "none"))]
          ELSE /\ Called("pardon_ban",
                         [r EXCEPT !.result = <<TRUE, "Unbanned">>, !.commits = 2,
                                   !.inserted = TRUE, !.conn = NewConn])
               /\ db' = [db EXCEPT
                           !.server_unban = Append(@, [ban_id |-> ban_id,
                                                      unbanning_admin |-> admin_user_id]),
                           !.conns = Opened(@, Connection(NewConn, c.connects[1], "committed", "none"))]

\* the last reference to an open connection goes: the caller of
\* _get_connection drops it, or the exception that left a method is
\* discarded
finalize_connection ==
    /\ \E k \in db.conns : db' = [db EXCEPT !.conns = @ \ {k}]
    /\ UNCHANGED <<call, nCalls>>

\* cfg.ROLE_WHITELISTS, the role ids and the keys a command can name
ROLE_WHITELISTS ==
    [ head_administration_role   |-> {"role_head"},
      general_adminisration_role |-> {"role_general"} ]
RoleIds == {"role_head", "role_general", "role_other"}
WhitelistKeys ==
    { <<>>, <<"head_administration_role">>, <<"unknown_key">>,
      <<"general_adminisration_role", "unknown_key">>,
      <<"head_administration_role", "general_adminisration_role">> }

\* who calls, and where: a member of the configured guild or of another
\* guild has roles; in a direct message ctx.author is a User, which has no
\* roles attribute, and ctx.guild is None
Contexts ==
    { [author |-> a, kind |-> "Member", guild |-> g, roles |-> rs] :
        a \in {"MY_USER_ID", "someone"}, g \in {"GUILD_ID", "other_guild"},
        rs \in {{}, {"role_head"}, {"role_general", "role_other"}} }
    \cup
    { [author |-> a, kind |-> "User", guild |-> None, roles |-> {}] :
        a \in {"MY_USER_ID", "someone"} }

\* the role ids collected over the keys (lines 19-21)
allowed_role_ids(whitelist_keys) ==
    UNION { IF whitelist_keys[i] \in DOMAIN ROLE_WHITELISTS
            THEN ROLE_WHITELISTS[whitelist_keys[i]] ELSE {} :
            i \in 1..Len(whitelist_keys) }

\* the predicate built by has_any_role_by_keys(*whitelist_keys), run for ctx
call_predicate ==
    \E whitelist_keys \in WhitelistKeys, ctx \in Contexts :
      LET r == [NoCall EXCEPT !.arg = <<whitelist_keys, ctx>>]
      IN
      /\ UNCHANGED db
      /\ IF ctx.author = "MY_USER_ID"
         THEN Called("predicate", [r EXCEPT !.result = TRUE])
         ELSE IF ctx.kind = "User"
         THEN Called("predicate", [r EXCEPT !.raised = "AttributeError"])
         ELSE IF ctx.roles \cap allowed_role_ids(whitelist_keys) # {}
         THEN Called("predicate", [r EXCEPT !.result = TRUE])
         ELSE \E out \in {"ok", "HTTPException"}, rolesFound \in BOOLEAN :
                LET denial ==
                      IF ctx.guild = "GUILD_ID"
                      THEN IF rolesFound /\ allowed_role_ids(whitelist_keys) # {}
                           THEN "denied_with_role_names"
                           ELSE "denied_roles_not_found"
                      ELSE "denied"
                IN  IF out = "ok"
                    THEN Called("predicate",
                                [r EXCEPT !.result = FALSE, !.sends = 1,
                                          !.message = <<denial>>])
                    ELSE Called("predicate",
                                [r EXCEPT !.raised = out, !.sends = 1,
                                          !.message = <<denial>>])

InitUnits ==
    /\ LinkIdle
    /\ channel = {} /\ auth_message_id = 0 /\ ready = FALSE
    /\ recon = ReconIdle /\ nRuns = 0
    /\ db \in InitManagers
    /\ call = NoCall
    /\ nCalls = 0

NextUnits ==
    /\ \/ call_add_database
       \/ call_get_connection
       \/ call_get_env_variable
       \/ call_is_user_linked
       \/ call_get_username_by_user_id
       \/ call_pardon_ban
       \/ call_predicate
       \/ finalize_connection
    /\ UNCHANGED linkVars
    /\ UNCHANGED reconVars

SpecUnits == InitUnits /\ [][NextUnits]_vars

(***************************************************************************)
(* Vocabulary of the properties                                            *)
(***************************************************************************)
IsBlank(text) == \A i \in 1..Len(text) : IsSpace(text[i])

\* the row (user_id, discord_id) of invocation t is in the link table
RowPresent(t) ==
    \E i \in 1..Len(discord_user) :
        /\ discord_user[i].user_id = user_id_of(t)
        /\ discord_user[i].discord_id = discord_id_of(t)

\* the callback has ended without an exception
Returned(t) == task[t].pc = "done" /\ task[t].raised = "none"

\* the branch the validation order of callback (lines 40-92) gives an
\* invocation that reaches a verdict without inserting
VerdictOf(t) ==
    IF user_id_of(t) = <<>> THEN "EmptyInput"
    ELSE IF user_id_of(t) \notin DOMAIN PlayerTable \/ task[t].dbError THEN "UnknownPlayer"
    ELSE "AlreadyLinked"

TypeOK ==
    /\ nSubmitted \in 0..MaxSubmits
    /\ \A t \in Tasks :
         /\ task[t].pc \in {"idle", "await_defer", "await_empty_reply",
                            "await_fail_fetch", "await_fail_dm", "await_fail_reply",
                            "await_fail_audit", "await_ok_fetch", "await_ok_audit",
                            "await_ok_reply", "done"}
         /\ task[t].outcome \in {"none", "ChannelUnresolved", "EmptyInput",
                                 "UnknownPlayer", "AlreadyLinked", "Linked"}
         /\ task[t].raised \in {"none", "Storage", "Platform", "Enrichment"}

(***************************************************************************)
(* C1.  In every reachable state each Discord id and each player id occurs *)
(* in at most one row of the link table.                                   *)
(***************************************************************************)
C1_LinkTableOneToOne ==
    \A i, j \in 1..Len(discord_user) :
        i # j => /\ discord_user[i].user_id # discord_user[j].user_id
                 /\ discord_user[i].discord_id # discord_user[j].discord_id

\* two rows, one written by an invocation still alive, while another
\* invocation was turned away
C1_Witness ==
    /\ Len(discord_user) >= 2
    /\ \E t, u \in Tasks :
         /\ t # u
         /\ task[t].inserted
         /\ task[u].outcome = "AlreadyLinked"

(***************************************************************************)
(* C2 (as claimed).  Two invocations for the same player id, interleaved   *)
(* at their suspension points, can both pass the already-linked check and  *)
(* both insert.  The second can pass only while the first, having passed,  *)
(* has not inserted yet: the claim needs an invocation to be suspended     *)
(* between its check and its insert.  Stated as that: no step of an        *)
(* invocation that has not yet passed the check ends with its row          *)
(* inserted.                                                               *)
(***************************************************************************)
C2_SuspendsBetweenCheckAndInsert ==
    [][\A t \in Tasks : ~task[t].checkPassed => ~task'[t].inserted]_vars

(***************************************************************************)
(* C2 (amended).  Two invocations for the same player id, alive at the     *)
(* same time in one event loop, never both insert a link row.              *)
(***************************************************************************)
C2_NoDoubleInsert ==
    \A t, u \in Tasks :
        (t # u /\ user_id_of(t) = user_id_of(u))
            => ~(task[t].inserted /\ task[u].inserted)

\* u was submitted by another requester before t's row existed, and was
\* turned away by the check after t inserted
C2_Witness ==
    \E t, u \in Tasks :
        /\ t # u
        /\ user_id_of(t) = user_id_of(u)
        /\ task[t].author # task[u].author
        /\ task[t].inserted
        /\ ~task[u].preUid /\ ~task[u].preDid
        /\ task[u].outcome = "AlreadyLinked"
        /\ ~task[u].checkPassed

(***************************************************************************)
(* C3 (as claimed).  A submission whose player id or requester is already  *)
(* in a link row ends in the AlreadyLinked branch without calling          *)
(* link_user_to_discord, and the row counts stay at 1.  Stated for the     *)
(* runs that reach a verdict with no storage error.                        *)
(***************************************************************************)
C3_AlwaysAlreadyLinked ==
    \A t \in Tasks :
        ( /\ task[t].preUid \/ task[t].preDid
          /\ task[t].outcome \in {"EmptyInput", "UnknownPlayer", "AlreadyLinked", "Linked"}
          /\ ~task[t].dbError )
        => /\ task[t].outcome = "AlreadyLinked"
           /\ "link_user_to_discord" \notin Range(task[t].dbCalls)
           /\ task[t].preUid => Cardinality(RowsOfUser(user_id_of(t))) = 1
           /\ task[t].preDid => Cardinality(RowsOfDiscord(discord_id_of(t))) = 1

(***************************************************************************)
(* C3 (amended).  Such a submission never calls link_user_to_discord and   *)
(* the row counts stay at 1; when it reaches a verdict, the verdict is     *)
(* the first failing check of the validation order: EmptyInput for a       *)
(* blank text, UnknownPlayer when the lookup gives no name, AlreadyLinked  *)
(* otherwise.  A run that returns has ChannelUnresolved or that verdict.   *)
(***************************************************************************)
C3_NeverLinksAgain ==
    \A t \in Tasks :
        (task[t].preUid \/ task[t].preDid)
        => /\ ~task[t].inserted
           /\ "link_user_to_discord" \notin Range(task[t].dbCalls)
           /\ task[t].preUid => Cardinality(RowsOfUser(user_id_of(t))) = 1
           /\ task[t].preDid => Cardinality(RowsOfDiscord(discord_id_of(t))) = 1
           /\ task[t].outcome \in {"none", "ChannelUnresolved", VerdictOf(t)}
           /\ Returned(t) => task[t].outcome # "none"

\* a linked player id, submitted again by another requester, was turned away
C3_Witness ==
    \E t \in Tasks :
        /\ task[t].preUid /\ ~task[t].preDid
        /\ Returned(t)
        /\ task[t].outcome = "AlreadyLinked"
        /\ task[t].audit = "sent"
        /\ Cardinality(RowsOfUser(user_id_of(t))) = 1

(***************************************************************************)
(* C4 (as claimed).  A blank text gets the EmptyInput reply and makes no   *)
(* Account Directory call.  Stated for the runs in which no platform call  *)
(* raised.                                                                 *)
(***************************************************************************)
C4_BlankGetsEmptyInput ==
    \A t \in Tasks :
        (Returned(t) /\ IsBlank(task[t].text))
        => /\ task[t].outcome = "EmptyInput"
           /\ task[t].reply = "sent"
           /\ task[t].dbCalls = <<>>

(***************************************************************************)
(* C5 (as claimed).  A player id with no row in the player table ends in   *)
(* UnknownPlayer and inserts no link row.  Stated for the runs in which    *)
(* no platform call raised.                                                *)
(***************************************************************************)
C5_AbsentGetsUnknownPlayer ==
    \A t \in Tasks :
        ( /\ Returned(t)
          /\ user_id_of(t) # <<>>
          /\ user_id_of(t) \notin DOMAIN PlayerTable )
        => /\ task[t].outcome = "UnknownPlayer"
           /\ ~task[t].inserted

(***************************************************************************)
(* C6.  No two rows of the link table carry the same discord_user_id.      *)
(***************************************************************************)
C6_KeysUnique ==
    \A i, j \in 1..Len(discord_user) :
        i # j => discord_user[i].discord_user_id # discord_user[j].discord_user_id

\* two invocations alive at the same time have each written a row
C6_Witness ==
    \E t, u \in Tasks :
        /\ t # u
        /\ task[t].inserted /\ task[u].inserted
        /\ task[t].pc # "done" /\ task[u].pc # "done"
        /\ user_id_of(t) # user_id_of(u)
        /\ task[t].author # task[u].author

(***************************************************************************)
(* C7 (as claimed).  When the direct message is refused (DMs closed), the  *)
(* ephemeral reply and the audit post are still attempted.                 *)
(***************************************************************************)
C7_RefusedDmBlocksNothing ==
    \A t \in Tasks :
        (task[t].pc = "done" /\ task[t].dm = "refused")
        => /\ task[t].reply # "none"
           /\ task[t].audit # "none"

(***************************************************************************)
(* C8 (as claimed).  Every failing execution (empty input, unknown player, *)
(* already linked, unresolved audit channel, storage failure) has sent an  *)
(* ephemeral message to the submitter when it ends.                        *)
(***************************************************************************)
C8_FailureAlwaysReplies ==
    \A t \in Tasks :
        ( /\ task[t].pc = "done"
          /\ \/ task[t].outcome \in {"ChannelUnresolved", "EmptyInput",
                                     "UnknownPlayer", "AlreadyLinked"}
             \/ task[t].raised = "Storage" )
        => task[t].reply # "none"

(***************************************************************************)
(* C9 (as claimed).  A failed database call is never reported as           *)
(* UnknownPlayer or AlreadyLinked, and the run does not end without a      *)
(* reply to the submitter.                                                 *)
(***************************************************************************)
C9_StorageFailureIsGeneric ==
    \A t \in Tasks :
        task[t].dbError
        => /\ task[t].outcome \notin {"UnknownPlayer", "AlreadyLinked"}
           /\ task[t].pc = "done" => task[t].reply # "none"

(***************************************************************************)
(* C10.  In the success branch the link row is committed before the audit  *)
(* post or the confirmation is attempted, and stays whatever they do: in   *)
(* every state from the first await of that branch on, the row is there.   *)
(***************************************************************************)
C10_CommittedBeforeNotifying ==
    \A t \in Tasks :
        ( \/ task[t].pc \in {"await_ok_fetch", "await_ok_audit", "await_ok_reply"}
          \/ task[t].outcome = "Linked" )
        => /\ task[t].inserted
           /\ RowPresent(t)
           /\ Cardinality(RowsOfUser(user_id_of(t))) >= 1

\* the audit post failed after the commit: the row is still there
C10_Witness ==
    \E t \in Tasks :
        /\ task[t].outcome = "Linked"
        /\ task[t].audit = "failed"
        /\ task[t].raised = "Platform"
        /\ task[t].reply = "none"
        /\ RowPresent(t)

(***************************************************************************)
(* C11.  get_creation_date never raises: whatever the HTTP lookup meets,   *)
(* an invocation that passed the already-linked check goes on to the       *)
(* insert with a string in creation_date, inserts its row unless the       *)
(* insert itself fails, and the audit post carries that string.            *)
(***************************************************************************)
CreationDateErrors ==
    {"api_error_text", "connection_error_text", "parse_error_text", "generic_error_text"}

C11_EnrichmentNeverAborts ==
    \A t \in Tasks :
        task[t].checkPassed
        => /\ task[t].raised # "Enrichment"
           /\ task[t].creation_date \in CreationDateErrors \cup {"timestamp"}
           /\ task[t].raised # "Storage"
                => (task[t].inserted /\ RowPresent(t) /\ task[t].outcome = "Linked")
           /\ task[t].audit = "sent" => task[t].auditText = task[t].creation_date

\* createdTime was null (a TypeError inside get_creation_date): the row is
\* there and the audit post carries the generic error text
C11_Witness ==
    \E t \in Tasks :
        /\ task[t].creation_date = "generic_error_text"
        /\ task[t].inserted /\ RowPresent(t)
        /\ task[t].audit = "sent"
        /\ task[t].auditText = "generic_error_text"

InRun == recon.state = "running" \/ (nRuns > 0 /\ recon.result # "none")

\* the run ran to the end of the body
RunCompleted == nRuns > 0 /\ recon.result = "completed"

\* the persisted reference named a message when the run started
RefResolved == auth_message_id # 0 /\ auth_message_id \in Ids(recon.start)

\* platform calls the run has made
PlatformCalls ==
    recon.fetches + recon.scans + Len(recon.edited) + Len(recon.sent)
        + Len(recon.pinned)

(***************************************************************************)
(* C13 (as claimed).  The channel never holds more than one prompt         *)
(* message, whatever the starting channel (at most one prompt, pinned or   *)
(* not; reference valid, stale or unset) and whatever runs, failed pins,   *)
(* cancellations and reloads follow.                                       *)
(***************************************************************************)
C13_AtMostOnePrompt == Cardinality(Prompts(channel)) <= 1

(***************************************************************************)
(* C14 (as claimed).  A run that finds no channel makes no platform call,  *)
(* ends without raising, and leaves the loop scheduled for its next tick.  *)
(***************************************************************************)
C14_UnresolvedChannelSkipsCycle ==
    (nRuns > 0 /\ ~recon.channel_ok /\ recon.state # "running")
        => /\ PlatformCalls = 0
           /\ recon.result # "raised"
           /\ recon.state # "failed"

\* the bot messages pinned in a channel
BotPinned(ch) == {m \in ch : m.pinned /\ m.author = "bot"}

\* the message of the channel with that id
MessageOf(id) == CHOOSE m \in channel : m.id = id

\* the run had a channel and no usable reference when it started
NoUsableRef == InRun /\ recon.channel_ok /\ ~RefResolved

(***************************************************************************)
(* C15 (as claimed).  After each completed run that found the referenced   *)
(* message there is exactly one prompt in the channel, it is pinned, and   *)
(* it carries the template.                                                *)
(***************************************************************************)
C15_ValidRefLeavesOnePinnedPrompt ==
    (RunCompleted /\ RefResolved)
        => /\ Cardinality(Prompts(channel)) = 1
           /\ \A m \in Prompts(channel) : m.pinned /\ m.content = Template

(***************************************************************************)
(* C16.  A run with a channel, with the reference unset or naming no       *)
(* message, and with a bot message pinned when it starts, sends and pins   *)
(* nothing and adds no message; what it edits is one of the bot messages   *)
(* that were pinned, and when it completes it has edited exactly one,      *)
(* which then carries the template and is still pinned.                    *)
(***************************************************************************)
C16_PinnedBotMessageEditedInPlace ==
    (NoUsableRef /\ BotPinned(recon.start) # {})
        => /\ recon.sent = <<>> /\ recon.pinned = <<>>
           /\ Ids(channel) = Ids(recon.start)
           /\ Len(recon.edited) <= 1
           /\ \A i \in 1..Len(recon.edited) :
                recon.edited[i] \in Ids(BotPinned(recon.start))
           /\ RunCompleted
                => /\ Len(recon.edited) = 1
                   /\ MessageOf(recon.edited[1]).content = Template
                   /\ MessageOf(recon.edited[1]).pinned

\* a completed run that met a stale reference, a pinned message of another
\* author and a pinned bot message, and edited the bot message
C16_Witness ==
    /\ RunCompleted /\ NoUsableRef /\ recon.notFound
    /\ \E m \in recon.start : m.pinned /\ m.author = "other"
    /\ Len(recon.edited) = 1
    /\ recon.edited[1] \in Ids(BotPinned(recon.start))

(***************************************************************************)
(* C17.  A run with a channel, with the reference unset or naming no       *)
(* message, and with no bot message pinned when it starts, edits nothing   *)
(* and sends at most one message; when it completes it has sent exactly    *)
(* one new message and pinned that same message, which is then in the      *)
(* channel, pinned, with the template.                                     *)
(***************************************************************************)
C17_ColdStartSendsAndPinsOne ==
    (NoUsableRef /\ BotPinned(recon.start) = {})
        => /\ recon.edited = <<>>
           /\ Len(recon.sent) <= 1
           /\ recon.pinned # <<>> => recon.pinned = recon.sent
           /\ RunCompleted
                => /\ Len(recon.sent) = 1
                   /\ recon.pinned = recon.sent
                   /\ recon.sent[1] \notin Ids(recon.start)
                   /\ Ids(channel) = Ids(recon.start) \cup {recon.sent[1]}
                   /\ MessageOf(recon.sent[1]) =
                        Message(recon.sent[1], "bot", TRUE, Template)

\* a completed run with the reference unset and only a pinned message of
\* another author in the channel
C17_Witness ==
    /\ RunCompleted /\ NoUsableRef /\ auth_message_id = 0
    /\ BotPinned(recon.start) = {}
    /\ \E m \in recon.start : m.pinned
    /\ Len(recon.sent) = 1

(***************************************************************************)
(* C18.  A completed run has made either exactly one edit of a message     *)
(* that existed when it started, with no send and no pin, or exactly one   *)
(* send of a new message and then one pin of that message, with no edit.   *)
(* In no state has a run pinned what it has not sent.                      *)
(***************************************************************************)
C18_OneEditOrOneSendAndPin ==
    /\ InRun => \A i \in 1..Len(recon.pinned) :
                    i <= Len(recon.sent) /\ recon.pinned[i] = recon.sent[i]
    /\ RunCompleted
        => \/ /\ Len(recon.edited) = 1
              /\ recon.edited[1] \in Ids(recon.start)
              /\ recon.sent = <<>> /\ recon.pinned = <<>>
           \/ /\ recon.edited = <<>>
              /\ Len(recon.sent) = 1
              /\ recon.sent[1] \notin Ids(recon.start)
              /\ recon.pinned = recon.sent

\* a run that edited the referenced message and completed
C18_Witness ==
    /\ RunCompleted /\ RefResolved
    /\ recon.edited = <<auth_message_id>>
    /\ recon.scans = 0

(***************************************************************************)
(* C19.  A run whose fetch_message raised NotFound has fetched once and    *)
(* has gone on to the pinned scan in the same run; when it completes it    *)
(* has edited a pinned bot message if there was one, and has sent and      *)
(* pinned a new prompt if there was none.                                  *)
(***************************************************************************)
C19_NotFoundGoesOnToScan ==
    (InRun /\ recon.notFound)
        => /\ recon.fetches = 1
           /\ recon.scans = 1
           /\ RunCompleted
                => IF BotPinned(recon.start) # {}
                   THEN Len(recon.edited) = 1 /\ recon.sent = <<>>
                   ELSE recon.edited = <<>> /\ Len(recon.sent) = 1
                        /\ recon.pinned = recon.sent

\* a completed run whose fetch raised NotFound and whose scan found nothing
C19_Witness ==
    /\ RunCompleted /\ recon.notFound
    /\ BotPinned(recon.start) = {}
    /\ Len(recon.sent) = 1 /\ recon.pinned = recon.sent

(***************************************************************************)
(* C20.  Until the bot is ready, no run has started and no platform call   *)
(* of the task has been made: the loop, started by the constructor, is     *)
(* waiting in before_discord_auth_update (or was cancelled there).         *)
(***************************************************************************)
C20_NoRunBeforeReady ==
    ~ready
        => /\ nRuns = 0
           /\ PlatformCalls = 0
           /\ recon.state \in {"not_started", "waiting_ready", "cancelled"}

\* the loop has been started and waits for the readiness signal
C20_Witness == ~ready /\ recon.state = "waiting_ready"

(***************************************************************************)
(* C21 (as claimed).  A cancelled run leaves no message it sent unpinned   *)
(* in the channel.                                                         *)
(***************************************************************************)
C21_CancelLeavesNoUnpinnedPrompt ==
    (nRuns > 0 /\ recon.result = "cancelled")
        => \A m \in channel : m.id \notin Ids(recon.start) => m.pinned

(***************************************************************************)
(* Vocabulary of the manager, config and role-check properties             *)
(***************************************************************************)
\* the last call was of that operation
LastCall(op) == nCalls > 0 /\ call.op = op

\* the last call has returned
CallReturned == call.raised = "none"

\* the unban rows of a ban
UnbansOf(ban_id) ==
    {i \in 1..Len(db.server_unban) : db.server_unban[i].ban_id = ban_id}

(***************************************************************************)
(* C22 (as claimed).  After a database operation has returned or raised,   *)
(* no connection it opened is open.                                        *)
(***************************************************************************)
C22_NoConnectionLeftOpen ==
    \A op \in {"is_user_linked", "get_username_by_user_id", "pardon_ban"} :
        LastCall(op) => \A k \in db.conns : k.id # call.conn

(***************************************************************************)
(* C23.  _get_connection(db_name) with db_name not in db_params raises     *)
(* ValueError "Unknown database name: <db_name>" and calls                 *)
(* psycopg2.connect not at all; with db_name in db_params it raises no     *)
(* ValueError and calls psycopg2.connect once, with db_params[db_name].    *)
(***************************************************************************)
C23_UnknownNameOrOneConnect ==
    LastCall("_get_connection")
        => IF call.db_name \in DOMAIN db.db_params
           THEN /\ call.raised # "ValueError"
                /\ call.connects = <<db.db_params[call.db_name]>>
                /\ CallReturned => call.result = "connection"
                /\ \A k \in db.conns :
                      k.id = call.conn => k.params = db.db_params[call.db_name]
           ELSE /\ call.raised = "ValueError"
                /\ call.message = <<"Unknown database name: ", call.db_name>>
                /\ call.connects = <<>>
                /\ \A k \in db.conns : k.id # call.conn

\* the manager has "main" only, and "dev" was asked for
C23_Witness ==
    /\ LastCall("_get_connection")
    /\ DOMAIN db.db_params = {"main"}
    /\ call.db_name = "dev"
    /\ call.raised = "ValueError"

(***************************************************************************)
(* C24.  After add_database(name, config), db_params[name] is config and   *)
(* every other entry is as before the call; before any add_database a      *)
(* manager built without configs has an empty db_params and one built      *)
(* with a non-empty dictionary has exactly its entries.                    *)
(***************************************************************************)
C24_AddDatabaseFrame ==
    /\ LastCall("add_database")
         => /\ call.db_name \in DOMAIN db.db_params
            /\ db.db_params[call.db_name] = call.arg
            /\ DOMAIN db.db_params = DOMAIN call.pre \cup {call.db_name}
            /\ \A n \in DOMAIN call.pre :
                  n # call.db_name => db.db_params[n] = call.pre[n]
    /\ (nCalls = 0 \/ (nCalls = 1 /\ call.op # "add_database"))
         => IF db.ctor_arg.given
            THEN /\ DOMAIN db.db_params = DOMAIN db.ctor_arg.configs
                 /\ \A n \in DOMAIN db.db_params :
                       db.db_params[n] = db.ctor_arg.configs[n]
            ELSE DOMAIN db.db_params = {}

\* "dev" was set on a manager that had "main" and "dev": "main" is as before
C24_Witness ==
    /\ LastCall("add_database")
    /\ call.db_name = "dev"
    /\ DOMAIN call.pre = {"main", "dev"}
    /\ db.db_params["dev"] # call.pre["dev"]
    /\ db.db_params["main"] = call.pre["main"]

(***************************************************************************)
(* C25.  get_env_variable(name, default) returns default when the          *)
(* variable is unset or set to the empty string, and the variable's value  *)
(* as it is (a blank one too) otherwise; it never raises.                  *)
(***************************************************************************)
C25_DefaultForUnsetOrEmpty ==
    LastCall("get_env_variable")
        => /\ CallReturned
           /\ IF call.db_name \notin DOMAIN call.env THEN call.result = call.arg
              ELSE IF Len(call.env[call.db_name]) = 0 THEN call.result = call.arg
              ELSE call.result = call.env[call.db_name]

\* the variable is set, to the empty string
C25_Witness ==
    /\ LastCall("get_env_variable")
    /\ call.db_name \in DOMAIN call.env
    /\ Len(call.env[call.db_name]) = 0
    /\ call.result = call.arg

(***************************************************************************)
(* C26.  A pardon_ban call that inserts an unban row was made for a ban    *)
(* of server_ban that had no unban row and by an admin_user_id of the      *)
(* player table, and returns (True, message); a call for a missing ban or  *)
(* an unknown admin inserts nothing, and a call that returns without       *)
(* inserting returns (False, message).  In every state each ban id has at  *)
(* most one unban row.                                                     *)
(***************************************************************************)
C26_UnbanOnlyOnce ==
    /\ \A ban_id \in BanIds : Cardinality(UnbansOf(ban_id)) <= 1
    /\ LastCall("pardon_ban")
         => LET ban_id == call.arg[1]
                admin_user_id == call.arg[2]
            IN  /\ call.inserted
                     => /\ ban_id \in server_ban
                        /\ admin_user_id \in DOMAIN PlayerTable
                        /\ db.server_unban[Len(db.server_unban)] =
                              [ban_id |-> ban_id, unbanning_admin |-> admin_user_id]
                        /\ CallReturned /\ call.result[1] = TRUE
                /\ (ban_id \notin server_ban \/ admin_user_id \notin DOMAIN PlayerTable)
                     => ~call.inserted
                /\ (CallReturned /\ ~call.inserted)
                     => /\ call.result[1] = FALSE
                        /\ call.result[2] \in {"BanMissing", "AlreadyUnbanned", "AdminMissing"}

\* a ban pardoned by the first call is refused by the second
C26_Witness ==
    /\ nCalls = 2 /\ LastCall("pardon_ban")
    /\ CallReturned /\ call.result = <<FALSE, "AlreadyUnbanned">>
    /\ call.arg[1] = 1
    /\ Cardinality(UnbansOf(1)) = 1

(***************************************************************************)
(* C27 (as claimed).  A pardon_ban call in which a database error was      *)
(* raised, at the connection attempt or at a statement, has rolled back    *)
(* and ends with a RuntimeError whose cause is the database error.         *)
(***************************************************************************)
C27_DatabaseErrorBecomesRuntimeError ==
    (LastCall("pardon_ban") /\ call.dbError # "none")
        => /\ call.raised = "RuntimeError"
           /\ call.cause = "psycopg2.Error"
           /\ call.rollbacks >= 1

\* the role ids ROLE_WHITELISTS lists under the keys of the last call
WhitelistedRoles(keys) ==
    {role \in RoleIds :
        \E i \in 1..Len(keys) :
            /\ keys[i] \in DOMAIN ROLE_WHITELISTS
            /\ role \in ROLE_WHITELISTS[keys[i]]}

(***************************************************************************)
(* C28 (as claimed).  The predicate returns True, sending nothing, when    *)
(* the caller is the owner or holds a role listed under one of the keys,   *)
(* and in every other case returns False after one denial message.         *)
(* Stated for the calls in which ctx.send did not raise.                   *)
(***************************************************************************)
C28_TrueForOwnerOrRoleElseDenied ==
    (LastCall("predicate") /\ call.raised # "HTTPException")
        => LET keys == call.arg[1]
               ctx == call.arg[2]
           IN  IF ctx.author = "MY_USER_ID"
                  \/ ctx.roles \cap WhitelistedRoles(keys) # {}
               THEN CallReturned /\ call.result = TRUE /\ call.sends = 0
               ELSE CallReturned /\ call.result = FALSE /\ call.sends = 1

(***************************************************************************)
(* C29 (as claimed).  After an invocation has committed its row and then   *)
(* failed, every later submission by the same requester or for the same    *)
(* player id ends in AlreadyLinked.  Stated for the later submissions      *)
(* that reach a verdict with no storage error.                             *)
(***************************************************************************)
C29_LaterSubmissionAlreadyLinked ==
    \A t, u \in Tasks :
        ( /\ t # u
          /\ task[t].inserted /\ task[t].raised = "Platform"
          /\ \/ task[u].preUid /\ user_id_of(u) = user_id_of(t)
             \/ task[u].preDid /\ discord_id_of(u) = discord_id_of(t)
          /\ task[u].outcome \in {"EmptyInput", "UnknownPlayer", "AlreadyLinked", "Linked"}
          /\ ~task[u].dbError )
        => task[u].outcome = "AlreadyLinked"

(***************************************************************************)
(* C29 (amended).  After an invocation has committed its row and then      *)
(* failed, the row stays, alone for its player id and its requester; a     *)
(* later submission by the same requester or for the same player id never  *)
(* calls link_user_to_discord, and when it reaches a verdict the verdict   *)
(* is the first failing check of the validation order: EmptyInput,         *)
(* UnknownPlayer, or else AlreadyLinked.                                   *)
(***************************************************************************)
C29_CommittedRowBlocksRelinking ==
    \A t \in Tasks :
        (task[t].inserted /\ task[t].raised = "Platform")
        => /\ RowPresent(t)
           /\ Cardinality(RowsOfUser(user_id_of(t))) = 1
           /\ Cardinality(RowsOfDiscord(discord_id_of(t))) = 1
           /\ \A u \in Tasks \ {t} :
                ( \/ task[u].preUid /\ user_id_of(u) = user_id_of(t)
                  \/ task[u].preDid /\ discord_id_of(u) = discord_id_of(t) )
                => /\ ~task[u].inserted
                   /\ "link_user_to_discord" \notin Range(task[u].dbCalls)
                   /\ task[u].outcome \in {"none", "ChannelUnresolved", VerdictOf(u)}

\* the confirmation failed after the commit; the same requester then asked
\* for another player and was turned away as already linked
C29_Witness ==
    \E t, u \in Tasks :
        /\ t # u
        /\ task[t].inserted /\ task[t].raised = "Platform" /\ task[t].reply = "failed"
        /\ task[u].preDid /\ discord_id_of(u) = discord_id_of(t)
        /\ user_id_of(u) # user_id_of(t)
        /\ Returned(u) /\ task[u].outcome = "AlreadyLinked"
        /\ Len(discord_user) = 1

\* the messages of a channel that the task has sent
SentByTask(ch) == {m \in ch : m.id >= NewId({})}

(***************************************************************************)
(* C30.  No step changes AUTH_MESSAGE_ID.  A run that starts with a        *)
(* message the task has sent and pinned in the channel sends nothing and   *)
(* adds no message; what it edits is that message, the only pinned bot     *)
(* message; when it completes it has scanned the pins and edited that      *)
(* message once, after a NotFound of the fetch when the reference is set.  *)
(***************************************************************************)
C30_ReferenceNeverWritten ==
    [][ /\ auth_message_id' = auth_message_id
        /\ (recon'.state = "running" \/ (nRuns' > 0 /\ recon'.result # "none"))
           => \A m \in SentByTask(recon'.start) :
                m.pinned
                => /\ BotPinned(recon'.start) = {m}
                   /\ recon'.sent = <<>>
                   /\ Ids(channel') = Ids(recon'.start)
                   /\ \A i \in 1..Len(recon'.edited) : recon'.edited[i] = m.id
                   /\ recon'.result = "completed"
                        => /\ recon'.edited = <<m.id>>
                           /\ recon'.scans = 1
                           /\ auth_message_id # 0
                                => recon'.notFound /\ recon'.fetches = 1
      ]_vars

\* a second run, after the cold start, edited the message the first sent
C30_Witness ==
    /\ nRuns = 2 /\ RunCompleted /\ recon.notFound
    /\ Cardinality(SentByTask(channel)) = 1
    /\ \E m \in SentByTask(recon.start) : m.pinned /\ recon.edited = <<m.id>>

=============================================================================
